---- MODULE Spec2Model ----
(***************************************************************************)
(* Plan CRUD handlers of plandex-server (app/server/handlers/plans_crud.go)*)
(* as a state machine over the plans table.  Every handler is a process    *)
(* running in a request slot; each database call of a handler is one       *)
(* atomic step, so that concurrent requests interleave between the calls.  *)
(***************************************************************************)
EXTENDS Integers, FiniteSets, Sequences, TLC

\* ---------------------------------------------------------------- bounds
MaxRequests == 2                \* requests started in one behaviour

\* ------------------------------------------------------------- constants
TrialMaxPlans == 10

StatusOK == 200
StatusBadRequest == 400
StatusUnauthorized == 401
StatusForbidden == 403
StatusNotFound == 404
StatusInternalServerError == 500

ApiErrorTypeTrialPlansExceeded == "trial_plans_exceeded"

\* --------------------------------------------------------------- domains
Slots == {1, 2}                 \* concurrently served requests
Users == {"u1", "u2"}
Orgs == {"o1"}
Projects == {"p1", "p2"}
RequestNames == {"", "draft", "a"}

\* both projects belong to the one org
ProjectOrg(projectId) == "o1"

\* user store: u1 is a trial user, u2 is not
UserIsTrial(userId) == userId = "u1"

Bodies ==
    {[kind |-> "unreadable", name |-> ""], [kind |-> "malformed", name |-> ""]}
        \cup {[kind |-> "json", name |-> n] : n \in RequestNames}

NoBody == [kind |-> "none", name |-> ""]
NoPlan == [id |-> 0, org |-> "", project |-> "", owner |-> "", name |-> ""]

VARIABLES
    plans,      \* rows of the plans table
    nextId,     \* next fresh plan id
    isCloud,    \* os.Getenv("IS_CLOUD") != ""
    nreq,       \* requests started so far
    req         \* per slot: the handler's position, locals and response

vars == <<plans, nextId, isCloud, nreq, req>>

\* ------------------------------------------------------- plan store (db)
NonDraftPlans(rows, userId) == {p \in rows : p.owner = userId /\ p.name # "draft"}

\* db.GetUser: the user record with its trial flag and non-draft plan count
GetUser(rows, userId) ==
    [id |-> userId, isTrial |-> UserIsTrial(userId),
     numNonDraftPlans |-> Cardinality(NonDraftPlans(rows, userId))]

\* SELECT COUNT(*) FROM plans WHERE project_id = $1 AND owner_id = $2 AND name = $3
CountPlansByName(rows, projectId, ownerId, name) ==
    Cardinality({p \in rows : p.project = projectId /\ p.owner = ownerId /\ p.name = name})

\* a cleanup that forgets the owner filter
DeleteDraftPlansAnyOwner(rows, orgId, projectId, userId) ==
    {p \in rows : ~(p.org = orgId /\ p.project = projectId /\ p.name = "draft")}

\* db.DeleteDraftPlans(orgId, projectId, userId)
DeleteDraftPlans(rows, orgId, projectId, userId) ==
    {p \in rows : ~(p.org = orgId /\ p.project = projectId /\ p.owner = userId
                    /\ p.name = "draft")}

\* db.DeleteOwnerPlans(orgId, projectId, userId)
DeleteOwnerPlans(rows, orgId, projectId, userId) ==
    {p \in rows : ~(p.org = orgId /\ p.project = projectId /\ p.owner = userId)}

\* a store without the uniqueness constraint never reports a conflict
NameConflictUnchecked(rows, projectId, ownerId, name) == FALSE

\* db.CreatePlan: the store's uniqueness constraint on (project_id, owner_id, name)
NameConflict(rows, projectId, ownerId, name) ==
    \E p \in rows : p.project = projectId /\ p.owner = ownerId /\ p.name = name

\* db.CreatePlan: the inserted row
NewPlan(id, orgId, projectId, ownerId, name) ==
    [id |-> id, org |-> orgId, project |-> projectId, owner |-> ownerId, name |-> name]

\* DELETE FROM plans WHERE id = $1
DeleteById(rows, planId) == {p \in rows : p.id # planId}

\* ------------------------------------------------------ request records
\* kind, seq, pc: the handler, the request's number and its position;
\* user .. rowsAffected: its locals;
\* status .. respName: the response; changed, dirCalled, sawCreate,
\* sawDelete: what the request did and saw so far.
Idle ==
    [kind |-> "none", seq |-> 0, pc |-> "idle", user |-> "", org |-> "", project |-> "",
     body |-> NoBody, name |-> "", originalName |-> "", i |-> 0,
     planId |-> 0, plan |-> NoPlan, rowsAffected |-> 0,
     status |-> 0, msg |-> "", errType |-> "", maxPlans |-> 0,
     respId |-> 0, respName |-> "",
     changed |-> FALSE, dirCalled |-> FALSE, sawCreate |-> FALSE, sawDelete |-> FALSE]

\* The handler writes a response and returns: its locals are gone; the
\* caller, what it sent (body, plan id), the plan it was authorized for, the
\* response and what the request did remain.
Return(rq, status, msg) ==
    [Idle EXCEPT !.kind = rq.kind, !.seq = rq.seq, !.pc = "done",
                 !.user = rq.user, !.body = rq.body,
                 !.planId = rq.planId, !.plan = rq.plan,
                 !.status = status, !.msg = msg,
                 !.changed = rq.changed, !.dirCalled = rq.dirCalled]

\* What the requests in the name loop (or between the loop and the insert)
\* see of another request's change of the table, in their (project, owner).
Observe(rqs, r, old, new) ==
    [q \in Slots |->
        IF q # r /\ rqs[q].pc \in {"check", "insert"}
        THEN [rqs[q] EXCEPT
                !.sawCreate = @ \/ \E p \in new \ old :
                                    p.project = rqs[q].project /\ p.owner = rqs[q].user,
                !.sawDelete = @ \/ \E p \in old \ new :
                                    p.project = rqs[q].project /\ p.owner = rqs[q].user]
        ELSE rqs[q]]

\* the table changes from plans to new while slot r becomes rq
Commit(r, rq, new) ==
    /\ plans' = new
    /\ req' = Observe([req EXCEPT ![r] = rq], r, plans, new)

Local(r, rq) ==
    /\ req' = [req EXCEPT ![r] = rq]
    /\ UNCHANGED plans

\* a new request is served in the first slot that serves none
Free(r) ==
    /\ nreq < MaxRequests
    /\ req[r].pc \in {"idle", "done"}
    /\ \A q \in Slots : q < r => req[q].pc \notin {"idle", "done"}

\* ------------------------------------------------------ initial states
Candidate(originalName, k) ==
    IF k = 1 THEN originalName ELSE originalName \o "." \o ToString(k)

\* The trial user holds TrialMaxPlans - 1 plans a, a.2, a.3, b, b.2, ..., b.6
\* and a draft in project p1 (what three requests for "a", six for "b" and
\* one for "draft" leave).
SeedPlans ==
    {NewPlan(k, "o1", "p1", "u1", Candidate("a", k)) : k \in 1..3}
        \cup {NewPlan(k, "o1", "p1", "u1", Candidate("b", k - 3)) :
                    k \in 4..(TrialMaxPlans - 1)}
        \cup {NewPlan(TrialMaxPlans, "o1", "p1", "u1", "draft")}

Init ==
    /\ plans \in {{}, SeedPlans}
    /\ nextId = Cardinality(plans) + 1
    /\ isCloud \in BOOLEAN
    /\ nreq = 0
    /\ req = [r \in Slots |-> Idle]

\* ---------------------------------------------------- CreatePlanHandler
\* lines 82-85 with the empty name left as it is
ResolveNameKeepEmpty(requested) == requested

\* lines 82-85: an empty requested name stands for "draft"
ResolveName(requested) == IF requested = "" THEN "draft" ELSE requested

\* lines 66-98: read and parse the body, resolve the name, pick the branch
Parse(rq) ==
    LET name == ResolveName(rq.body.name)
    IN  IF rq.body.kind = "unreadable"
        THEN Return(rq, StatusInternalServerError, "Error reading request body")
        ELSE IF rq.body.kind = "malformed"
        THEN Return(rq, StatusBadRequest, "Error parsing request body")
        ELSE IF name = "draft"
        THEN [rq EXCEPT !.pc = "cleanup", !.name = name]
        ELSE [rq EXCEPT !.pc = "check", !.name = name, !.originalName = name, !.i = 2]

\* lines 51-52 with > for >=
TrialGateOffByOne(cloud, user) ==
    cloud /\ user.isTrial /\ user.numNonDraftPlans > TrialMaxPlans

\* lines 42, 51-52: the request is over the trial quota
TrialGate(cloud, user) ==
    cloud /\ user.isTrial /\ user.numNonDraftPlans >= TrialMaxPlans

\* lines 53-61 with the return left out: the handler goes on to the body
TrialExceededNoReturn(rq) ==
    [Parse(rq) EXCEPT !.status = StatusForbidden,
                      !.errType = ApiErrorTypeTrialPlansExceeded,
                      !.maxPlans = TrialMaxPlans]

\* lines 53-61: writeApiError(TrialPlansExceeded); return
TrialExceeded(rq) ==
    [Return(rq, StatusForbidden, "User has reached max number of free trial plans")
        EXCEPT !.errType = ApiErrorTypeTrialPlansExceeded, !.maxPlans = TrialMaxPlans]

\* lines 22-98: authenticate, permission check, authorizeProject, the trial
\* quota gate (one read of the user store), then the body
CreateBegin(r) ==
    /\ Free(r)
    /\ nreq' = nreq + 1
    /\ UNCHANGED <<nextId, isCloud>>
    /\ \/ Local(r, Return([Idle EXCEPT !.kind = "create", !.seq = nreq + 1],
                           StatusUnauthorized, ""))
       \/ \E u \in Users, o \in Orgs, pr \in Projects, b \in Bodies :
            LET rq == [Idle EXCEPT !.kind = "create", !.seq = nreq + 1,
                                   !.user = u, !.org = o,
                                   !.project = pr, !.body = b]
                user == GetUser(plans, u)
            IN  \/ Local(r, Return(rq, StatusForbidden,
                                   "User does not have permission to create a plan"))
                \/ Local(r, Return(rq, StatusNotFound, ""))
                \/ /\ isCloud
                   /\ Local(r, Return(rq, StatusInternalServerError, "Error getting user"))
                \/ /\ ProjectOrg(pr) = o
                   /\ Local(r, IF TrialGate(isCloud, user) THEN TrialExceeded(rq)
                               ELSE Parse(rq))

\* lines 88-95: delete any existing draft plans
CreateCleanup(r) ==
    /\ req[r].pc = "cleanup"
    /\ UNCHANGED <<nextId, isCloud, nreq>>
    /\ LET rq == req[r]
           new == DeleteDraftPlans(plans, rq.org, rq.project, rq.user)
       IN  \/ Local(r, Return(rq, StatusInternalServerError, "Error deleting draft plans"))
           \/ Commit(r, [rq EXCEPT !.pc = "insert", !.changed = @ \/ new # plans], new)

\* line 113 with the suffix appended to the current candidate
NextNameFromCandidate(rq) == rq.name \o "." \o ToString(rq.i)

\* line 113: name = originalName + "." + fmt.Sprint(i)
NextName(rq) == rq.originalName \o "." \o ToString(rq.i)

\* line 109 with the loop left after the second check whatever it found
NameTakenTwice(count, i) == count # 0 /\ i < 3

\* line 109: the candidate is in use
NameTaken(count, i) == count # 0

\* lines 99-115: one round of the collision loop
CreateCheck(r) ==
    /\ req[r].pc = "check"
    /\ UNCHANGED <<nextId, isCloud, nreq>>
    /\ LET rq == req[r]
           count == CountPlansByName(plans, rq.project, rq.user, rq.name)
       IN  \/ Local(r, Return(rq, StatusInternalServerError, "Error checking if plan exists"))
           \/ Local(r, IF NameTaken(count, rq.i)
                       THEN [rq EXCEPT !.name = NextName(rq), !.i = @ + 1]
                       ELSE [rq EXCEPT !.pc = "insert"])

\* lines 118-142: db.CreatePlan and the response
CreateInsert(r) ==
    /\ req[r].pc = "insert"
    /\ UNCHANGED <<isCloud, nreq>>
    /\ LET rq == req[r]
       IN  \/ /\ Local(r, Return(rq, StatusInternalServerError, "Error creating plan"))
              /\ UNCHANGED nextId
           \/ /\ ~NameConflict(plans, rq.project, rq.user, rq.name)
              /\ nextId' = nextId + 1
              /\ Commit(r, [Return([rq EXCEPT !.changed = TRUE], StatusOK, "")
                                EXCEPT !.respId = nextId, !.respName = rq.name],
                        plans \cup {NewPlan(nextId, rq.org, rq.project, rq.user, rq.name)})

\* ---------------------------------------------------- DeletePlanHandler
\* authorizePlanDelete: the plan row, if it exists in the caller's org and
\* the caller may delete plans; otherwise the status it answers with
AuthorizePlanDelete(rows, planId, orgId, mayDelete) ==
    LET found == {p \in rows : p.id = planId /\ p.org = orgId}
    IN  IF found = {} THEN [plan |-> NoPlan, status |-> StatusNotFound]
        ELSE IF ~mayDelete THEN [plan |-> NoPlan, status |-> StatusForbidden]
        ELSE [plan |-> CHOOSE p \in found : TRUE, status |-> 0]

\* plan ids a delete request names: the first two seeded plans, the plans
\* created since, and an id no plan has
PlanIdInputs == {id \in 1..nextId : id <= 2 \/ id >= TrialMaxPlans}

\* line 193 with the owner check left out
NotOwnerIgnored(plan, userId) == FALSE

\* line 193: plan.OwnerId != auth.User.Id
NotOwner(plan, userId) == plan.owner # userId

\* lines 177-197: authenticate, authorizePlanDelete, owner check
DeleteBegin(r) ==
    /\ Free(r)
    /\ nreq' = nreq + 1
    /\ UNCHANGED <<nextId, isCloud>>
    /\ \/ Local(r, Return([Idle EXCEPT !.kind = "delete", !.seq = nreq + 1],
                           StatusUnauthorized, ""))
       \/ \E u \in Users, o \in Orgs, id \in PlanIdInputs, mayDelete \in BOOLEAN :
            LET rq == [Idle EXCEPT !.kind = "delete", !.seq = nreq + 1,
                                   !.user = u, !.org = o, !.planId = id]
                res == AuthorizePlanDelete(plans, id, o, mayDelete)
            IN  Local(r, IF res.plan = NoPlan THEN Return(rq, res.status, "")
                         ELSE IF NotOwner(res.plan, u)
                         THEN Return([rq EXCEPT !.plan = res.plan], StatusForbidden,
                                     "Only the plan owner can delete a plan")
                         ELSE [rq EXCEPT !.plan = res.plan, !.pc = "exec"])

\* line 214 with the test left out
NoRowsAffectedIgnored(rowsAffected) == FALSE

\* line 214: rowsAffected == 0
NoRowsAffected(rowsAffected) == rowsAffected = 0

\* lines 199-218: the row DELETE and its rows-affected test
DeleteExec(r) ==
    /\ req[r].pc = "exec"
    /\ UNCHANGED <<nextId, isCloud, nreq>>
    /\ LET rq == req[r]
           new == DeleteById(plans, rq.planId)
           n == Cardinality(plans \ new)
           did == [rq EXCEPT !.changed = @ \/ new # plans, !.rowsAffected = n]
       IN  \/ Local(r, Return(rq, StatusInternalServerError, "Error deleting plan"))
           \/ Commit(r, Return(did, StatusInternalServerError,
                               "Error getting rows affected"), new)
           \/ Commit(r, IF NoRowsAffected(n) THEN Return(did, StatusNotFound, "Not found")
                        ELSE [did EXCEPT !.pc = "rmdir"], new)

\* lines 222-226 with the row put back when the directory deletion fails
DirFailureRollback(rq, rows) == rows \cup {rq.plan}

\* lines 222-226: a failed directory deletion leaves the table as it is
DirFailure(rq, rows) == rows

\* lines 220-228: db.DeletePlanDir and the response
DeleteDir(r) ==
    /\ req[r].pc = "rmdir"
    /\ UNCHANGED <<nextId, isCloud, nreq>>
    /\ LET rq == [req[r] EXCEPT !.dirCalled = TRUE]
       IN  \/ Commit(r, Return(rq, StatusInternalServerError, "Error deleting plan dir"),
                     DirFailure(rq, plans))
           \/ Local(r, Return(rq, StatusOK, ""))

\* lines 231-257: DeleteAllPlansHandler
DeleteAllPlansHandler(r) ==
    /\ Free(r)
    /\ nreq' = nreq + 1
    /\ UNCHANGED <<nextId, isCloud>>
    /\ \/ Local(r, Return([Idle EXCEPT !.kind = "deleteAll", !.seq = nreq + 1],
                           StatusUnauthorized, ""))
       \/ \E u \in Users, o \in Orgs, pr \in Projects :
            LET rq == [Idle EXCEPT !.kind = "deleteAll", !.seq = nreq + 1,
                                   !.user = u, !.org = o,
                                   !.project = pr]
                new == DeleteOwnerPlans(plans, o, pr, u)
            IN  \/ Local(r, Return(rq, StatusNotFound, ""))
                \/ Local(r, Return(rq, StatusInternalServerError, "Error deleting plans"))
                \/ /\ ProjectOrg(pr) = o
                   /\ Commit(r, Return([rq EXCEPT !.changed = new # plans], StatusOK, ""), new)

\* ---------------------------------------------------------- behaviours
Next ==
    \E r \in Slots :
        \/ CreateBegin(r)
        \/ CreateCleanup(r)
        \/ CreateCheck(r)
        \/ CreateInsert(r)
        \/ DeleteBegin(r)
        \/ DeleteExec(r)
        \/ DeleteDir(r)
        \/ DeleteAllPlansHandler(r)

Spec == Init /\ [][Next]_vars

\* ------------------------------------------------------------ properties
Draft(name) == name \in {"", "draft"}

ScopeNames(rows, projectId, ownerId) ==
    {p.name : p \in {q \in rows : q.project = projectId /\ q.owner = ownerId}}

DraftsOf(rows, orgId, projectId, ownerId) ==
    {p \in rows : p.org = orgId /\ p.project = projectId /\ p.owner = ownerId
                  /\ p.name = "draft"}

RECURSIVE FirstUnused(_, _, _)
FirstUnused(names, originalName, k) ==
    IF Candidate(originalName, k) \notin names THEN Candidate(originalName, k)
    ELSE FirstUnused(names, originalName, k + 1)

\* names has originalName, originalName.2, ..., originalName.k and not the next
Contiguous(names, originalName, k) ==
    /\ \A j \in 1..k : Candidate(originalName, j) \in names
    /\ Candidate(originalName, k + 1) \notin names

\* this step starts a request in slot r (and answers it, if it ends at once)
BeginStep(r) == nreq' = nreq + 1 /\ req'[r].seq = nreq'

Rejected(rq) == rq.errType = ApiErrorTypeTrialPlansExceeded

OverQuota(rows, userId) ==
    isCloud /\ UserIsTrial(userId)
        /\ Cardinality(NonDraftPlans(rows, userId)) >= TrialMaxPlans

\* the request passed the quota gate: it is at the cleanup or in the name
\* loop, or it ended on its body
PassedGate(rq) ==
    /\ rq.kind = "create"
    /\ \/ rq.pc \in {"cleanup", "check"}
       \/ rq.msg \in {"Error reading request body", "Error parsing request body"}

\* C1: in every reachable state no two plans of the same project and owner
\* have the same name, whatever create and delete requests interleave.
C1_UniqueNames ==
    \A p \in plans, q \in plans :
        (p.project = q.project /\ p.owner = q.owner /\ p.name = q.name) => p = q

\* two requests of one user for the name "a" ran; one created the plan, the
\* other ended on the insert
C1_Witness ==
    \E r \in Slots, q \in Slots :
        /\ r # q
        /\ req[r].kind = "create" /\ req[q].kind = "create"
        /\ req[r].user = req[q].user
        /\ req[r].body.name = "a" /\ req[q].body.name = "a"
        /\ req[r].pc = "done" /\ req[r].status = StatusOK
        /\ req[q].pc = "done" /\ req[q].msg = "Error creating plan"
        /\ \E p \in plans : p.id = req[r].respId /\ p.name = req[r].respName

\* C2: a request for a non-draft name N that no other request's change of its
\* (project, owner) interferes with creates N if N is unused there, and
\* N.(k+1) if N, N.2, ..., N.k are in use and N.(k+1) is not.
C2_AloneName ==
    [][\A r \in Slots :
        (/\ req[r].pc = "insert"
         /\ ~Draft(req[r].body.name)
         /\ ~req[r].sawCreate /\ ~req[r].sawDelete
         /\ req'[r].status = StatusOK)
        => LET names == ScopeNames(plans, req[r].project, req[r].user)
               N == req[r].body.name
           IN  /\ N \notin names => req'[r].respName = N
               /\ \A k \in 1..Cardinality(names) :
                    Contiguous(names, N, k) => req'[r].respName = Candidate(N, k + 1)
               /\ \E p \in plans' \ plans :
                    p.id = req'[r].respId /\ p.name = req'[r].respName]_vars

\* the only request of the run asked for "a" where a, a.2, a.3 existed and
\* created a.4
C2_Witness ==
    \E r \in Slots :
        /\ nreq = 1
        /\ req[r].kind = "create" /\ req[r].pc = "done" /\ req[r].status = StatusOK
        /\ req[r].body.name = "a" /\ req[r].respName = "a.4"
        /\ \E p \in plans : p.id = req[r].respId /\ p.name = "a.4" /\ p.owner = "u1"

\* C3: a request for "" or "draft" never enters the name loop; when it
\* succeeds the plan is named "draft" and is the only draft of its
\* (org, project, owner); its cleanup removes drafts of that scope only.
C3_DraftState ==
    \A r \in Slots :
        (req[r].kind = "create" /\ Draft(req[r].body.name)) =>
            /\ req[r].pc # "check"
            /\ req[r].i = 0
            /\ req[r].pc \in {"cleanup", "insert"} => req[r].name = "draft"
            /\ (req[r].pc = "done" /\ req[r].status = StatusOK) => req[r].respName = "draft"

C3_DraftStep ==
    \A r \in Slots :
        /\ (req[r].pc = "cleanup" /\ req'[r].pc # "cleanup") =>
                /\ plans' \subseteq plans
                /\ plans \ plans' \subseteq
                        DraftsOf(plans, req[r].org, req[r].project, req[r].user)
                /\ req'[r].pc = "insert" =>
                        DraftsOf(plans', req[r].org, req[r].project, req[r].user) = {}
        /\ (req[r].pc = "insert" /\ req[r].name = "draft" /\ req'[r].status = StatusOK) =>
                /\ plans \subseteq plans'
                /\ \A p \in DraftsOf(plans', req[r].org, req[r].project, req[r].user) :
                        p.id = req'[r].respId
                /\ \E p \in DraftsOf(plans', req[r].org, req[r].project, req[r].user) :
                        p.id = req'[r].respId

C3_Draft == []C3_DraftState /\ [][C3_DraftStep]_vars

\* the only request of the run sent the empty name: the seeded draft is
\* gone, the new plan is the draft, the other plans are all there
C3_Witness ==
    \E r \in Slots :
        /\ nreq = 1
        /\ req[r].kind = "create" /\ req[r].pc = "done" /\ req[r].status = StatusOK
        /\ req[r].body.name = "" /\ req[r].respName = "draft"
        /\ req[r].respId = TrialMaxPlans + 1
        /\ \A p \in plans : p.id # TrialMaxPlans
        /\ \E p \in plans : p.id = req[r].respId /\ p.name = "draft"
        /\ \A p \in SeedPlans : p.name # "draft" => p \in plans

\* C4: the quota gate rejects a creation request exactly when cloud mode is
\* on, the caller is on trial and holds TrialMaxPlans or more non-draft plans;
\* the rejection is Forbidden, TrialPlansExceeded with MaxPlans = TrialMaxPlans.
C4_GateState ==
    \A r \in Slots :
        Rejected(req[r]) =>
            /\ req[r].kind = "create"
            /\ req[r].status = StatusForbidden
            /\ req[r].maxPlans = TrialMaxPlans
            /\ TrialMaxPlans = 10

C4_GateStep ==
    \A r \in Slots :
        (BeginStep(r) /\ req'[r].kind = "create") =>
            /\ Rejected(req'[r]) => OverQuota(plans, req'[r].user)
            /\ PassedGate(req'[r]) => ~OverQuota(plans, req'[r].user)

C5_RejectState ==
    \A r \in Slots :
        Rejected(req[r]) => req[r].pc = "done" /\ ~req[r].changed

C5_RejectStep ==
    \A r \in Slots :
        /\ (BeginStep(r) /\ Rejected(req'[r])) => plans' = plans /\ nextId' = nextId
        /\ (Rejected(req[r]) /\ nreq' = nreq) => req'[r] = req[r]

C5_RejectNoEffect == []C5_RejectState /\ [][C5_RejectStep]_vars

\* a rejected request with a malformed body,
\* with the seeded draft still there
C5_Witness ==
    \E r \in Slots :
        /\ Rejected(req[r]) /\ req[r].pc = "done"
        /\ req[r].body.kind = "malformed"
        /\ \E p \in plans : p.id = TrialMaxPlans /\ p.name = "draft"
        /\ Cardinality(plans) = TrialMaxPlans + 1

\* C6: a delete request for a plan the caller may delete but does not own
\* ends with Forbidden, the row stays and the directory deletion is not called.
C6_NotOwnerState ==
    \A r \in Slots :
        (req[r].kind = "delete" /\ req[r].plan # NoPlan /\ req[r].plan.owner # req[r].user)
            => /\ req[r].pc = "done"
               /\ req[r].status = StatusForbidden
               /\ ~req[r].changed
               /\ ~req[r].dirCalled

C6_NotOwnerStep ==
    \A r \in Slots :
        (/\ BeginStep(r)
         /\ req'[r].kind = "delete"
         /\ req'[r].plan # NoPlan
         /\ req'[r].plan.owner # req'[r].user)
        => plans' = plans /\ req'[r].plan \in plans'

C6_NotOwner == []C6_NotOwnerState /\ [][C6_NotOwnerStep]_vars

\* u2 asked to delete a plan of u1
C6_Witness ==
    \E r \in Slots :
        /\ req[r].kind = "delete" /\ req[r].pc = "done"
        /\ req[r].user = "u2" /\ req[r].plan.owner = "u1"
        /\ req[r].msg = "Only the plan owner can delete a plan"
        /\ req[r].plan \in plans

\* C7: a delete request for an id no row has ends with NotFound (a failure
\* of the store apart), removes no row and does not call the directory
\* deletion; so does one whose row goes between the authorization and the
\* DELETE.
C7_NotFoundState ==
    \A r \in Slots :
        (req[r].kind = "delete" /\ req[r].status = StatusNotFound)
            => req[r].pc = "done" /\ ~req[r].changed /\ ~req[r].dirCalled

C7_NotFoundStep ==
    \A r \in Slots :
        /\ (/\ BeginStep(r)
            /\ req'[r].kind = "delete"
            /\ req'[r].user # ""
            /\ \A p \in plans : p.id # req'[r].planId)
           => /\ plans' = plans
              /\ req'[r].pc = "done" /\ req'[r].status = StatusNotFound
              /\ ~req'[r].changed /\ ~req'[r].dirCalled
        /\ (/\ req[r].pc = "exec" /\ req'[r].pc # "exec"
            /\ \A p \in plans : p.id # req[r].planId)
           => /\ plans' = plans
              /\ req'[r].pc = "done"
              /\ \/ req'[r].status = StatusNotFound
                 \/ req'[r].msg \in {"Error deleting plan", "Error getting rows affected"}
              /\ ~req'[r].changed /\ ~req'[r].dirCalled

C7_NotFound == []C7_NotFoundState /\ [][C7_NotFoundStep]_vars

\* two requests were authorized to delete the same plan; one deleted it, the
\* other found no row
C7_Witness ==
    \E r \in Slots, q \in Slots :
        /\ r # q
        /\ req[r].kind = "delete" /\ req[q].kind = "delete"
        /\ req[r].planId = req[q].planId
        /\ req[q].pc = "done" /\ req[q].status = StatusOK /\ req[q].changed
        /\ req[r].pc = "done" /\ req[r].msg = "Not found"
        /\ req[r].status = StatusNotFound /\ req[r].plan # NoPlan
        /\ ~req[r].changed /\ ~req[r].dirCalled

\* C8: the directory deletion is called only after the DELETE removed a row;
\* it is called once, and when it fails the request ends with a server error
\* and the row stays deleted.
C8_DirState ==
    \A r \in Slots :
        /\ req[r].pc = "rmdir" => req[r].rowsAffected >= 1 /\ req[r].changed
        /\ req[r].dirCalled =>
                /\ req[r].kind = "delete" /\ req[r].pc = "done" /\ req[r].changed
                /\ \A p \in plans : p.id # req[r].planId

C8_DirStep ==
    \A r \in Slots :
        /\ (req[r].pc = "rmdir" /\ req'[r] # req[r]) =>
                /\ plans' = plans
                /\ req'[r].pc = "done" /\ req'[r].dirCalled
                /\ \/ req'[r].status = StatusOK
                   \/ /\ req'[r].status = StatusInternalServerError
                      /\ req'[r].msg = "Error deleting plan dir"
        /\ (req'[r].dirCalled /\ ~req[r].dirCalled) => req[r].pc = "rmdir"

C8_DirAfterRow == []C8_DirState /\ [][C8_DirStep]_vars

\* the directory deletion failed after the row of the plan was deleted
C8_Witness ==
    \E r \in Slots :
        /\ req[r].kind = "delete" /\ req[r].pc = "done" /\ req[r].dirCalled
        /\ req[r].status = StatusInternalServerError
        /\ req[r].msg = "Error deleting plan dir"
        /\ req[r].plan \notin plans

\* C9 as stated: if no other request created a plan in the scope while the
\* loop ran, the loop made at most one check per plan of the scope and one
\* more, and leaves with the first candidate of N, N.2, N.3, ... not in use.
C9_Original ==
    [][\A r \in Slots :
        LET names == ScopeNames(plans, req[r].project, req[r].user)
        IN  (req[r].pc = "check" /\ ~req[r].sawCreate) =>
                /\ req[r].i - 2 <= Cardinality(names)
                /\ req'[r].pc = "insert" =>
                        req'[r].name = FirstUnused(names, req[r].originalName, 1)]_vars

\* C9 (amended): if no other request created or deleted a plan in the scope
\* while the loop ran, the loop made at most one check per plan of the scope
\* and one more, and leaves with the first candidate of N, N.2, N.3, ... not
\* in use, contiguous suffixes or not.
C9_LoopFirstUnused ==
    [][\A r \in Slots :
        LET names == ScopeNames(plans, req[r].project, req[r].user)
        IN  (req[r].pc = "check" /\ ~req[r].sawCreate /\ ~req[r].sawDelete) =>
                /\ req[r].i - 2 <= Cardinality(names)
                /\ req[r].name = Candidate(req[r].originalName, req[r].i - 1)
                /\ req'[r].pc = "insert" =>
                        req'[r].name = FirstUnused(names, req[r].originalName, 1)]_vars

\* a.2 was deleted; the loop for "a" left with a.2 although a.3 is in use
C9_Witness ==
    \E r \in Slots :
        /\ req[r].pc = "insert" /\ req[r].originalName = "a" /\ req[r].name = "a.2"
        /\ ~req[r].sawCreate /\ ~req[r].sawDelete
        /\ ScopeNames(plans, req[r].project, req[r].user) \cap {"a", "a.2", "a.3"}
                = {"a", "a.3"}

\* C10: in cloud mode a trial user never holds more than TrialMaxPlans
\* non-draft plans.
C10_TrialQuota ==
    isCloud => \A u \in Users :
        UserIsTrial(u) => Cardinality(NonDraftPlans(plans, u)) <= TrialMaxPlans

====
